---- MODULE Spec2Model ----
(***************************************************************************)
(* The support-portal backend: the three report generators                 *)
(* (NetworkValidator, MDMComplianceChecker, StorageAnalyzer) and the       *)
(* dispatcher run_script of app.py that invokes them.                      *)
(*                                                                         *)
(* Every random.* call of the source is an input drawn with \E from a set  *)
(* of representative values of its range (the range's ends and the values  *)
(* next to each threshold the code compares against).  Python's None is    *)
(* the string None below; a timestamp is the opaque value Now.             *)
(***************************************************************************)
EXTENDS Integers, Sequences, FiniteSets, TLC

VARIABLES
    request,     \* run_script: the request being answered
    response,    \* run_script: what that request got back
    trace,       \* run_script: the steps the last request took, in order
    logged,      \* run_script: the lines log_execution printed for it
    validator,   \* the NetworkValidator instance: device_id and self.results
    reports,     \* the reports that instance returned, as their holder sees them now
    calls,       \* how many times that instance ran its checks
    exported,    \* the outcome of the last NetworkValidator.export_report call
    checker,     \* the MDMComplianceChecker instance
    compliance,  \* the outcome of the call made on that instance
    analyzer,    \* the StorageAnalyzer instance
    storageRet   \* the outcome of the call made on that instance

dispatchVars == <<request, response, trace, logged>>
networkVars == <<validator, reports, calls, exported>>
mdmVars == <<checker, compliance>>
storageVars == <<analyzer, storageRet>>

vars == <<dispatchVars, networkVars, mdmVars, storageVars>>

None == "<None>"
Now == "<now>"

Max(a, b) == IF a >= b THEN a ELSE b

\* Python truthiness of a device id: None and the empty string are falsy.
Falsy(x) == x \in {None, ""}

\* str.lower() on the format arguments the model draws.
Lower(s) ==
    CASE s = "JSON" -> "json"
      [] s = "Text" -> "text"
      [] s = "XML" -> "xml"
      [] OTHER -> s

(***************************************************************************)
(* scripts/network_validator.py                                            *)
(***************************************************************************)

\* Number of generate_health_report calls followed on one instance.
MaxCalls == 2

\* Number of export_report calls followed on one instance.
MaxExports == 2

\* Device ids a caller constructs a generator with.
DeviceArgs == {None, "dev-1"}

\* Format arguments a caller passes.
Formats == {"json", "text", "JSON", "xml"}

\* random.randint(1000, 9999) of the synthesized device id.
SimIds == {"1000"}

SignalDraws == {-71, -70}
SsidDraws == {"Corporate_WiFi"}
IpDraws == {None}
VpnStatusDraws == {"connected", "disconnected", "error"}
ResolvedIp == "1.1.1.1"

WifiDraws ==
    [connected : BOOLEAN, signal_strength : SignalDraws,
     ssid : SsidDraws, ip_address : IpDraws]

DnsDraws == [internal : BOOLEAN, mdm : BOOLEAN]

\* NetworkValidator.__init__
NewValidator(dev, sim) ==
    LET id == IF Falsy(dev) THEN "ios-sim-" \o sim ELSE dev
    IN  [device_id |-> id,
         results |-> [device_id |-> id, timestamp |-> Now, health_score |-> 0,
                      issues |-> <<>>, recommendations |-> <<>>]]

WifiDownIssue ==
    [category |-> "Wi-Fi", severity |-> "high",
     message |-> "Device not connected to Wi-Fi",
     solution |-> "Connect to corporate Wi-Fi network 'Corp-Employee'"]

WifiWeakIssue(signal) ==
    [category |-> "Wi-Fi", severity |-> "medium",
     message |-> "Weak Wi-Fi signal (" \o ToString(signal) \o " dBm)",
     solution |-> "Move closer to access point or restart Wi-Fi"]

check_wifi_connectivity_both(res, w) ==
    LET down == IF ~w.connected
                THEN [res EXCEPT !.issues = Append(@, WifiDownIssue)] ELSE res
    IN  [results |->
            IF w.signal_strength < -70
            THEN [down EXCEPT !.issues = Append(@, WifiWeakIssue(w.signal_strength))]
            ELSE down,
         ret |-> w]

\* check_wifi_connectivity: the issues list after the check, and the status returned.
check_wifi_connectivity(res, w) ==
    [results |->
        IF ~w.connected
        THEN [res EXCEPT !.issues = Append(@, WifiDownIssue)]
        ELSE IF w.signal_strength < -70
             THEN [res EXCEPT !.issues = Append(@, WifiWeakIssue(w.signal_strength))]
             ELSE res,
     ret |-> w]

vpn_configs(status) ==
    << [name |-> "Corporate_VPN", status |-> status,
        protocol |-> "IKEv2", server |-> "vpn.company.com"],
       [name |-> "Backup_VPN", status |-> "disabled",
        protocol |-> "IPSec", server |-> "vpn-backup.company.com"] >>

VpnErrorIssue(name) ==
    [category |-> "VPN", severity |-> "high",
     message |-> "VPN " \o name \o " configuration error",
     solution |-> "Reinstall VPN profile from Company Portal app"]

ConnectVpnRecommendation ==
    [action |-> "Connect VPN", priority |-> "high",
     steps |-> <<"Open Settings > VPN", "Toggle Corporate_VPN to ON",
                 "Enter credentials if prompted">>]

\* The body of check_vpn_configuration's loop, for one entry.
VpnStep(res, vpn) ==
    IF vpn.status = "error"
    THEN [res EXCEPT !.issues = Append(@, VpnErrorIssue(vpn.name))]
    ELSE IF vpn.status = "disconnected" /\ vpn.name = "Corporate_VPN"
         THEN [res EXCEPT !.recommendations = Append(@, ConnectVpnRecommendation)]
         ELSE res

check_vpn_configuration(res, status) ==
    LET cfgs == vpn_configs(status)
    IN  [results |-> VpnStep(VpnStep(res, cfgs[1]), cfgs[2]),
         ret |-> [vpn_configurations |-> cfgs]]

test_domains(d) ==
    << <<"apple.com", TRUE>>, <<"company.internal", d.internal>>,
       <<"mdm.company.com", d.mdm>> >>

DnsIssue(domain) ==
    [category |-> "DNS", severity |-> "high",
     message |-> "Cannot resolve internal domain: " \o domain,
     solution |-> "Update DNS settings to use corporate DNS servers: 10.0.0.1, 10.0.0.2"]

DnsResult(t) ==
    IF t[2] THEN [domain |-> t[1], status |-> "resolved", ip |-> ResolvedIp]
    ELSE [domain |-> t[1], status |-> "failed", error |-> "NXDOMAIN"]

DnsStepEveryDomain(res, t) ==
    IF ~t[2] THEN [res EXCEPT !.issues = Append(@, DnsIssue(t[1]))] ELSE res

\* The body of check_dns_settings's loop, for one test domain.
DnsStep(res, t) ==
    IF ~t[2] /\ t[1] = "company.internal"
    THEN [res EXCEPT !.issues = Append(@, DnsIssue(t[1]))]
    ELSE res

check_dns_settings(res, d) ==
    LET tests == test_domains(d)
    IN  [results |-> DnsStep(DnsStep(DnsStep(res, tests[1]), tests[2]), tests[3]),
         ret |-> [dns_servers |-> <<"8.8.8.8", "8.8.4.4", "10.0.0.1", "10.0.0.2">>,
                  resolution_tests |-> [i \in 1..3 |-> DnsResult(tests[i])]]]

HealthScoreUnclamped(issue_count) == 100 - (issue_count * 20)

HealthScore(issue_count) == Max(0, 100 - (issue_count * 20))

HealthStatus(health_score) ==
    IF health_score >= 80 THEN "HEALTHY"
    ELSE IF health_score >= 50 THEN "NEEDS_ATTENTION"
    ELSE "UNHEALTHY"

QuickFixes ==
    <<"Restart Wi-Fi: Turn off/on Wi-Fi in Settings",
      "Forget and rejoin corporate network",
      "Restart device if issues persist">>

AddQuickFixesAlways(full_report, issue_count) ==
    full_report @@ [quick_fixes |-> QuickFixes]

\* Lines 156-162: if issue_count > 0: full_report["quick_fixes"] = [...]
AddQuickFixes(full_report, issue_count) ==
    IF issue_count > 0 THEN full_report @@ [quick_fixes |-> QuickFixes] ELSE full_report

\* generate_health_report on an instance whose self.results is res:
\* self.results afterwards, and the report returned.
generate_health_report(res, w, v, d) ==
    LET wifi == check_wifi_connectivity(res, w)
        vpn == check_vpn_configuration(wifi.results, v)
        dns == check_dns_settings(vpn.results, d)
        issue_count == Len(dns.results.issues)
        health_score == HealthScore(issue_count)
        after == [dns.results EXCEPT !.health_score = health_score]
        full_report ==
            after @@
            [wifi |-> wifi.ret, vpn |-> vpn.ret, dns |-> dns.ret,
             summary |-> [status |-> HealthStatus(health_score),
                          total_checks |-> 3,
                          passed_checks |-> 3 - issue_count,
                          failed_checks |-> issue_count]]
    IN  [results |-> after,
         report |-> AddQuickFixes(full_report, issue_count)]

\* {**self.results, ...} copies the references: the issues and recommendations
\* lists of a report already returned are the lists self.results holds.
Aliased(report, res) ==
    [report EXCEPT !.issues = res.issues, !.recommendations = res.recommendations]

\* export_report(format) on an instance whose self.results is res.
export_report(res, format, w, v, d) ==
    LET gen == generate_health_report(res, w, v, d)
        report == gen.report
    IN  [results |-> gen.results,
         ret |->
            IF Lower(format) = "json"
            THEN [raised |-> FALSE, rendering |-> "json", report |-> report]
            ELSE IF Lower(format) = "text"
            THEN [raised |-> FALSE, rendering |-> "text",
                  device |-> report.device_id,
                  health_score |-> report.health_score,
                  status |-> report.summary.status,
                  issues |-> [i \in 1..Len(report.issues) |->
                                <<report.issues[i].category, report.issues[i].message,
                                  report.issues[i].solution>>],
                  recommendations |->
                      [i \in 1..Len(report.recommendations) |->
                          <<report.recommendations[i].action,
                            report.recommendations[i].priority>>]]
            ELSE [raised |-> TRUE, error |-> "ValueError",
                  message |-> "Unsupported format: " \o format]]

(***************************************************************************)
(* scripts/mdm_checker.py                                                  *)
(***************************************************************************)

\* _load_compliance_rules
compliance_rules ==
    [required_profiles |->
        <<"Corporate_MDM", "VPN_Configuration", "Wi-Fi_Certificate", "Email_Profile">>,
     security_requirements |->
        [passcode_required |-> TRUE, min_passcode_length |-> 6,
         auto_lock_minutes |-> 5, encryption_enabled |-> TRUE,
         jailbreak_detection |-> TRUE],
     app_requirements |->
        <<"Company_Portal", "Authenticator", "Secure_Mail", "VPN_Client">>]

\* MDMComplianceChecker.__init__
NewChecker(dev, sim) ==
    [device_id |-> IF Falsy(dev) THEN "ios-mdm-" \o sim ELSE dev,
     compliance_rules |-> compliance_rules]

\* The draws of simulate_device_profiles: the installed flags, and each expiry
\* as the randint number of days it lies after the moment it is computed.
MdmDays == {-10, 8, 30}
VpnDays == {30, 365}
EmailDays == {60}
WifiDays == {-5, 30}
PolicyDays == {100}

ProfileDraws ==
    [mdm_installed : BOOLEAN, mdm_days : MdmDays,
     vpn_installed : BOOLEAN, vpn_days : VpnDays,
     email_days : EmailDays,
     wifi_installed : BOOLEAN, wifi_days : WifiDays,
     policy_installed : BOOLEAN, policy_days : PolicyDays]

\* The draws of check_security_compliance.
SecurityDraws ==
    [enabled : BOOLEAN, length : {5, 6}, complexity : {"numeric"},
     minutes : {5}, data_protection : {FALSE},
     jailbroken : BOOLEAN, os_version : {"17.4"}, model : {"iPhone 15"}]

\* The draws of check_app_compliance.
CorporateAppDraws ==
    [portal : BOOLEAN, authenticator : BOOLEAN, mail : BOOLEAN, vpn_client : BOOLEAN]

\* Whether the clock moved on between datetime.now() of a profile's expiry
\* (line 47) and datetime.now() of the expiry check (line 154): with a clock
\* of microsecond resolution it has, with a coarse one it may not have.
ClockDraws == BOOLEAN

simulate_device_profiles(p) ==
    << [name |-> "Corporate_MDM", installed |-> p.mdm_installed, expiry |-> p.mdm_days,
        organization |-> "IT Department", identifier |-> "com.company.mdm.profile"],
       [name |-> "VPN_Configuration", installed |-> p.vpn_installed, expiry |-> p.vpn_days,
        organization |-> "Network Team", identifier |-> "com.company.vpn.profile"],
       [name |-> "Email_Profile", installed |-> TRUE, expiry |-> p.email_days,
        organization |-> "Exchange Team", identifier |-> "com.company.email.profile"],
       [name |-> "Wi-Fi_Certificate", installed |-> p.wifi_installed, expiry |-> p.wifi_days,
        organization |-> "Security Team", identifier |-> "com.company.wifi.cert"],
       [name |-> "Security_Policy", installed |-> p.policy_installed,
        expiry |-> p.policy_days,
        organization |-> "Compliance Office",
        identifier |-> "com.company.security.policy"] >>

check_security_compliance(s) ==
    [passcode |-> [enabled |-> s.enabled, length |-> s.length,
                   complexity |-> s.complexity],
     auto_lock |-> [enabled |-> TRUE, minutes |-> s.minutes],
     encryption |-> [data_protection |-> s.data_protection, filevault |-> TRUE],
     device |-> [jailbroken |-> s.jailbroken, os_version |-> "iOS " \o s.os_version,
                 model |-> s.model]]

check_app_compliance(a) ==
    << [name |-> "Company_Portal", installed |-> a.portal, version |-> "4.8.1"],
       [name |-> "Authenticator", installed |-> a.authenticator, version |-> "6.7.2"],
       [name |-> "Secure_Mail", installed |-> a.mail, version |-> "5.3.0"],
       [name |-> "VPN_Client", installed |-> a.vpn_client, version |-> "3.2.1"],
       [name |-> "Teams", installed |-> TRUE, version |-> "5.9.1"],
       [name |-> "OneDrive", installed |-> TRUE, version |-> "14.8.1"] >>

\* [x["name"] for x in items if x["installed"]], as the set `in` is asked of.
InstalledNames(items) == {items[i].name : i \in {j \in 1..Len(items) : items[j].installed}}

\* [f(x) for x in seq]
MapSeq(f(_), seq) == [i \in 1..Len(seq) |-> f(seq[i])]

\* (expiry_date - datetime.now()).days: timedelta.days is the floor, so a
\* clock that moved on takes one day off.
DaysUntilExpiry(profile, late) == IF late THEN profile.expiry - 1 ELSE profile.expiry

MissingProfileIssue(required) ==
    [type |-> "missing_profile", profile |-> required, severity |-> "high",
     action |-> "Install " \o required \o " profile from Company Portal"]

ExpiringProfileIssueFrom7(profile, days_until_expiry) ==
    [type |-> "expiring_profile", profile |-> profile.name,
     days_remaining |-> days_until_expiry,
     severity |-> IF days_until_expiry >= 7 THEN "medium" ELSE "high",
     action |-> "Renew " \o profile.name \o " profile before expiry"]

ExpiringProfileIssue(profile, days_until_expiry) ==
    [type |-> "expiring_profile", profile |-> profile.name,
     days_remaining |-> days_until_expiry,
     severity |-> IF days_until_expiry > 7 THEN "medium" ELSE "high",
     action |-> "Renew " \o profile.name \o " profile before expiry"]

PasscodeDisabledIssue ==
    [type |-> "security", issue |-> "Passcode not enabled", severity |-> "critical",
     action |-> "Enable passcode in Settings > Face ID & Passcode"]

PasscodeShortIssue(length) ==
    [type |-> "security",
     issue |-> "Passcode too short (" \o ToString(length) \o " characters)",
     severity |-> "high",
     action |-> "Increase passcode length to at least 6 characters"]

JailbrokenIssue ==
    [type |-> "security", issue |-> "Device is jailbroken", severity |-> "critical",
     action |-> "Contact IT security immediately. Jailbroken devices cannot access corporate resources."]

MissingAppRecommendationHigh(app) ==
    [type |-> "app", app |-> app, priority |-> "high",
     action |-> "Install " \o app \o " from App Store",
     link |-> "https://apps.company.com/install"]

MissingAppRecommendation(app) ==
    [type |-> "app", app |-> app, priority |-> "medium",
     action |-> "Install " \o app \o " from App Store",
     link |-> "https://apps.company.com/install"]

\* Lines 137-148: one issue per required profile that is not installed.
ProfileIssues(rules, profiles) ==
    LET installed_profiles == InstalledNames(profiles)
        missing == SelectSeq(rules.required_profiles,
                             LAMBDA required : required \notin installed_profiles)
    IN  MapSeq(MissingProfileIssue, missing)

\* Lines 150-162: one issue per installed profile that expires within 30 days.
ExpiryIssues(profiles, late) ==
    LET expiring == SelectSeq(profiles,
                        LAMBDA profile : /\ profile.installed
                                         /\ DaysUntilExpiry(profile, late) < 30)
        issue(profile) == ExpiringProfileIssue(profile, DaysUntilExpiry(profile, late))
    IN  MapSeq(issue, expiring)

JailbreakIssuesUngraded(security) ==
    IF security.device.jailbroken
    THEN <<[JailbrokenIssue EXCEPT !.severity = "high"]>> ELSE <<>>

\* Lines 181-187.
JailbreakIssues(security) ==
    IF security.device.jailbroken THEN <<JailbrokenIssue>> ELSE <<>>

\* Lines 164-187.
SecurityIssues(security) ==
    (IF ~security.passcode.enabled THEN <<PasscodeDisabledIssue>> ELSE <<>>)
    \o (IF security.passcode.length < 6
        THEN <<PasscodeShortIssue(security.passcode.length)>> ELSE <<>>)
    \o JailbreakIssues(security)

\* Lines 189-201.
AppRecommendations(rules, apps) ==
    LET installed_apps == InstalledNames(apps)
        missing == SelectSeq(rules.app_requirements,
                             LAMBDA app : app \notin installed_apps)
    IN  MapSeq(MissingAppRecommendation, missing)

ComplianceScoreCeil(failed_checks, total_checks) ==
    Max(0, 100 - ((failed_checks * 100 + total_checks - 1) \div total_checks))

ComplianceScoreDivFirst(failed_checks, total_checks) ==
    Max(0, 100 - ((failed_checks \div total_checks) * 100))

\* Line 210: // is the floor of the quotient.
ComplianceScore(failed_checks, total_checks) ==
    Max(0, 100 - ((failed_checks * 100) \div total_checks))

ComplianceStatus(compliance_score) ==
    IF compliance_score >= 90 THEN "COMPLIANT" ELSE "NON_COMPLIANT"

CountSeverity(issues, severity) ==
    Len(SelectSeq(issues, LAMBDA i : i.severity = severity))

run_compliance_check(self, p, s, a, late) ==
    LET profiles == simulate_device_profiles(p)
        security == check_security_compliance(s)
        apps == check_app_compliance(a)
        rules == self.compliance_rules
        compliance_issues ==
            ProfileIssues(rules, profiles) \o ExpiryIssues(profiles, late)
            \o SecurityIssues(security)
        recommendations == AppRecommendations(rules, apps)
        total_checks == Len(rules.required_profiles) + 3 + Len(rules.app_requirements)
        failed_checks == Len(compliance_issues)
        compliance_score == ComplianceScore(failed_checks, total_checks)
    IN  [device_id |-> self.device_id,
         timestamp |-> Now,
         compliance_score |-> compliance_score,
         status |-> ComplianceStatus(compliance_score),
         profiles |-> profiles,
         security |-> security,
         apps |-> apps,
         issues |-> compliance_issues,
         recommendations |-> recommendations,
         summary |-> [total_checks |-> total_checks,
                      passed_checks |-> total_checks - failed_checks,
                      failed_checks |-> failed_checks,
                      critical_issues |-> CountSeverity(compliance_issues, "critical"),
                      high_priority |-> CountSeverity(compliance_issues, "high")]]

\* random.randint(10000, 99999) of the certificate id.
CertificateIds == {"10000"}

\* Whether the clock moved on between datetime.now() of issue_date (line 240)
\* and datetime.now() of valid_until (line 241), in microseconds.
CertificateTicks == {0, 1}

\* len([x for x in items if x["installed"]])
CountInstalled(items) == Cardinality({i \in 1..Len(items) : items[i].installed})

SecurityCompliantFrom90(compliance_score) == compliance_score >= 90

\* Line 248.
SecurityCompliant(compliance_score) == compliance_score >= 80

\* generate_compliance_certificate: the report of the check it runs and the
\* certificate built from it. A time is <<days, microseconds>> after the
\* moment issue_date is taken.
generate_compliance_certificate(self, p, s, a, late, id, tick) ==
    LET report == run_compliance_check(self, p, s, a, late)
    IN  [checks |-> <<report>>,
         certificate |->
            [certificate_id |-> "CMP-" \o id,
             device_id |-> report.device_id,
             issue_date |-> <<0, 0>>,
             valid_until |-> <<30, tick>>,
             compliance_status |-> report.status,
             score |-> report.compliance_score,
             issuer |-> "Corporate IT Compliance Authority",
             signature |-> "Verified by Company MDM System",
             details |->
                [profiles_installed |-> CountInstalled(report.profiles),
                 security_compliant |-> SecurityCompliant(report.compliance_score),
                 apps_installed |-> CountInstalled(report.apps)]]]

(***************************************************************************)
(* scripts/storage_cleaner.py                                              *)
(*                                                                         *)
(* A value the source rounds to one decimal (a percentage, a size in GB)   *)
(* is kept as its number of tenths: 45.5 is 455.                           *)
(***************************************************************************)

\* How far above its range's low end each raw category percentage is drawn.
BreakdownSpread == 3

\* The integer nearest to num / den (num >= 0, den > 0); tie_up decides a tie.
RoundNearest(num, den, tie_up) ==
    LET q == num \div den
        twice == 2 * (num % den)
    IN  IF twice > den THEN q + 1
        ELSE IF twice < den THEN q
        ELSE IF tie_up THEN q + 1 ELSE q

\* round() of a value the doubles hold exactly: a tie goes to the even digit.
RoundHalfEven(num, den) == RoundNearest(num, den, (num \div den) % 2 = 1)

\* The <<raw, total_percent>> pairs with 1000 * raw / total_percent halfway
\* between two tenths for which round(raw / total_percent * 100, 1) in IEEE
\* double arithmetic gives the lower tenth; every other tie gives the upper.
FloatTiesDown ==
    { <<4, 64>>, <<20, 64>>, <<36, 64>>, <<52, 64>>, <<1, 80>>, <<5, 80>>,
      <<9, 80>>, <<13, 80>>, <<17, 80>>, <<21, 80>>, <<23, 80>>, <<25, 80>>,
      <<29, 80>>, <<33, 80>>, <<37, 80>>, <<41, 80>>, <<45, 80>>, <<51, 80>>,
      <<53, 80>>, <<57, 80>>, <<6, 96>>, <<30, 96>>, <<54, 96>>, <<7, 112>>,
      <<35, 112>>, <<8, 128>>, <<40, 128>>, <<9, 144>>, <<45, 144>>,
      <<2, 160>>, <<10, 160>>, <<18, 160>>, <<26, 160>>, <<34, 160>>,
      <<42, 160>>, <<46, 160>>, <<50, 160>>, <<58, 160>> }

NormalizedPercentageFloor(raw, total_percent) == (raw * 1000) \div total_percent

\* Lines 51-53: round((raw / total_percent) * 100, 1), in tenths.
NormalizedPercentage(raw, total_percent) ==
    RoundNearest(raw * 1000, total_percent, <<raw, total_percent>> \notin FloatTiesDown)

\* StorageAnalyzer.__init__
NewAnalyzer(dev, sim) ==
    [device_id |-> IF Falsy(dev) THEN "ios-storage-" \o sim ELSE dev,
     storage_categories |->
        [apps |-> "Applications", photos |-> "Photos & Videos",
         documents |-> "Documents & Data", system |-> "System",
         cache |-> "Cached Data", other |-> "Other"]]

\* The categories in the order the dict breakdown_percentages holds them.
CategoryOrder == <<"apps", "photos", "documents", "system", "cache", "other">>

\* The low end of each category's random.randint range, and its high end.
RawLow == [apps |-> 30, photos |-> 10, documents |-> 5, system |-> 10,
           cache |-> 5, other |-> 1]
RawHigh == [apps |-> 60, photos |-> 40, documents |-> 20, system |-> 20,
            cache |-> 15, other |-> 10]

RawDraws(category, spread) ==
    {n \in RawLow[category]..RawHigh[category] : n <= RawLow[category] + spread}

\* The draws of simulate_storage_usage: the capacity, the used space (the low
\* or the high end of its range), the six raw percentages, and the direction
\* of a tie in round(used_gb * percentage / 100, 1), which the double decides.
BreakdownDraws ==
    [total_gb : {64, 128, 256, 512}, used_high : BOOLEAN,
     apps : RawDraws("apps", BreakdownSpread),
     photos : RawDraws("photos", BreakdownSpread),
     documents : RawDraws("documents", BreakdownSpread),
     system : RawDraws("system", BreakdownSpread),
     cache : RawDraws("cache", BreakdownSpread),
     other : RawDraws("other", BreakdownSpread),
     tie_up : BOOLEAN]

simulate_storage_usage(self, d) ==
    LET total_gb == d.total_gb
        used_gb == IF d.used_high THEN total_gb - 5 ELSE total_gb \div 2
        total_percent == d.apps + d.photos + d.documents + d.system + d.cache + d.other
        entry(category) ==
            LET percentage == NormalizedPercentage(d[category], total_percent)
            IN  [category |-> self.storage_categories[category],
                 size_gb |-> RoundNearest(used_gb * percentage, 100, d.tie_up),
                 percentage |-> percentage,
                 cleanable |-> category \in {"cache", "apps", "photos"}]
    IN  [total |-> total_gb,
         used |-> used_gb,
         available |-> total_gb - used_gb,
         percentage_used |-> RoundHalfEven(used_gb * 1000, total_gb),
         breakdown |-> [i \in 1..Len(CategoryOrder) |-> entry(CategoryOrder[i])]]

\* common_apps: name, type, and the random.uniform range of cache_size (tenths of a GB).
CommonApps ==
    << [name |-> "Safari", type |-> "system", cache_low |-> 5, cache_high |-> 25],
       [name |-> "Photos", type |-> "media", cache_low |-> 10, cache_high |-> 50],
       [name |-> "Messages", type |-> "communication", cache_low |-> 3, cache_high |-> 15],
       [name |-> "Mail", type |-> "productivity", cache_low |-> 5, cache_high |-> 20],
       [name |-> "Teams", type |-> "corporate", cache_low |-> 8, cache_high |-> 30],
       [name |-> "Slack", type |-> "corporate", cache_low |-> 5, cache_high |-> 25],
       [name |-> "Chrome", type |-> "browser", cache_low |-> 7, cache_high |-> 30],
       [name |-> "Spotify", type |-> "entertainment", cache_low |-> 10, cache_high |-> 40],
       [name |-> "YouTube", type |-> "entertainment", cache_low |-> 15, cache_high |-> 50],
       [name |-> "Instagram", type |-> "social", cache_low |-> 8, cache_high |-> 35],
       [name |-> "Camera", type |-> "system", cache_low |-> 1, cache_high |-> 5],
       [name |-> "App Store", type |-> "system", cache_low |-> 2, cache_high |-> 10] >>

\* The sizes one app draws, in tenths of a GB (on that grid round(..., 2) and
\* round(..., 1) of a sum of sizes change nothing): "low" is the low end of
\* each range, "high" the high end, "edge" a total of exactly 2.0 GB.
SizeDraw(app, pick) ==
    CASE pick = "low" -> [cache_size |-> app.cache_low, app_size |-> 1, documents_size |-> 0]
      [] pick = "high" -> [cache_size |-> app.cache_high, app_size |-> 15,
                           documents_size |-> 20]
      [] pick = "edge" -> [cache_size |-> app.cache_low, app_size |-> 13,
                           documents_size |-> 20 - 13 - app.cache_low]

\* random.randint(0, 90) days since each app was used.
UsageDraws ==
    { [i \in 1..Len(CommonApps) |-> 0],
      [i \in 1..Len(CommonApps) |-> IF i % 2 = 1 THEN 60 ELSE 61],
      [i \in 1..Len(CommonApps) |-> 90] }

\* How many of the apps draw their "high" sizes in one analysis.
MaxBigApps == 4

\* The apps that may draw the "edge" sizes.
EdgeApps == {"Chrome"}

\* The draws of analyze_app_storage: each app's sizes and days since use.
AppStorageDraws ==
    [size : {f \in [1..Len(CommonApps) -> {"low", "high"}] :
                Cardinality({i \in 1..Len(CommonApps) : f[i] = "high"}) <= MaxBigApps},
     edge : SUBSET EdgeApps,
     days : UsageDraws]

SizePick(a, i) ==
    IF a.size[i] = "low" /\ CommonApps[i].name \in a.edge THEN "edge" ELSE a.size[i]

\* Lines 84-92: one entry of common_apps with its sizes filled in.
AppEntry(app, draw, days) ==
    [name |-> app.name, type |-> app.type,
     cache_size |-> draw.cache_size,
     app_size |-> draw.app_size,
     documents_size |-> draw.documents_size,
     total_size |-> draw.app_size + draw.cache_size + draw.documents_size,
     last_used |-> days,
     cleanable_cache |-> draw.cache_size > 5]

\* The place of x in a list sorted by descending total_size: after every entry
\* at least as large, sorted() being stable.
RECURSIVE InsertDesc(_, _)
InsertDesc(sorted, x) ==
    IF sorted = <<>> THEN <<x>>
    ELSE IF Head(sorted).total_size >= x.total_size
         THEN <<Head(sorted)>> \o InsertDesc(Tail(sorted), x)
         ELSE <<x>> \o sorted

RECURSIVE SortedDescFrom(_, _, _)
SortedDescFrom(sorted, seq, i) ==
    IF i > Len(seq) THEN sorted
    ELSE SortedDescFrom(InsertDesc(sorted, seq[i]), seq, i + 1)

Unsorted(seq) == seq

\* Line 95: sorted(common_apps, key=lambda x: x["total_size"], reverse=True)
SortedByTotalSize(seq) == SortedDescFrom(<<>>, seq, 1)

analyze_app_storage(a) ==
    SortedByTotalSize(
        [i \in 1..Len(CommonApps) |->
            AppEntry(CommonApps[i], SizeDraw(CommonApps[i], SizePick(a, i)), a.days[i])])

RECURSIVE SumSeq(_)
SumSeq(seq) == IF seq = <<>> THEN 0 ELSE Head(seq) + SumSeq(Tail(seq))

\* seq[:n]
Take(seq, n) == SubSeq(seq, 1, IF Len(seq) < n THEN Len(seq) ELSE n)

\* next((item for item in breakdown if text in item["category"]), None):
\* the one category whose display name holds the text.
BreakdownItem(storage, category) ==
    CHOOSE item \in {storage.breakdown[i] : i \in 1..Len(storage.breakdown)} :
        item.category = category

LowStorageIssues(storage) ==
    IF storage.percentage_used > 900
    THEN << [severity |-> "critical", type |-> "low_storage",
             message |-> "Device storage critically low",
             percentage_used |-> storage.percentage_used,
             impact |-> "Device performance degraded, apps may crash"] >>
    ELSE IF storage.percentage_used > 800
    THEN << [severity |-> "high", type |-> "low_storage",
             message |-> "Device storage low",
             percentage_used |-> storage.percentage_used,
             impact |-> "Limited space for new apps and updates"] >>
    ELSE <<>>

NotManaged(app) == app.type \notin {"system", "corporate"}

ReviewRecommendation(app) ==
    [action |-> "Review " \o app.name \o " storage",
     steps |-> <<"Settings > General > iPhone Storage > " \o app.name,
                 "Consider offloading app or clearing cache">>,
     savings_gb |-> app.cache_size + app.documents_size]

AppSavings(app) == app.cache_size + app.documents_size

TotalSize(app) == app.total_size

\* identify_storage_issues, given what simulate_storage_usage and
\* analyze_app_storage returned; tie_up is the direction of a tie in
\* round(cache_data["size_gb"] * 0.3, 1), which the double decides.
StorageAnalysis(self, storage, apps, tie_up) ==
    LET cache_data == BreakdownItem(storage, "Cached Data")
        cache_found == cache_data.size_gb > 20
        cache_savings == RoundNearest(cache_data.size_gb * 3, 10, tie_up)
        large_apps == SelectSeq(apps, LAMBDA app : app.total_size > 20)
        reviewed == SelectSeq(Take(large_apps, 3), NotManaged)
        unused_apps == SelectSeq(apps, LAMBDA app : app.last_used > 60 /\ NotManaged(app))
        unused_storage == SumSeq(MapSeq(TotalSize, Take(unused_apps, 5)))
        photos_data == BreakdownItem(storage, "Photos & Videos")
        issues ==
            LowStorageIssues(storage)
            \o (IF cache_found
                THEN << [severity |-> "medium", type |-> "excessive_cache",
                         message |-> "Large cache data",
                         size_gb |-> cache_data.size_gb,
                         impact |-> "Wasted storage space"] >>
                ELSE <<>>)
            \o (IF large_apps # <<>>
                THEN << [severity |-> "medium", type |-> "large_apps",
                         message |-> ToString(Len(large_apps)) \o " apps using over 2GB each",
                         impact |-> "Significant storage consumption"] >>
                ELSE <<>>)
        recommendations ==
            (IF cache_found
             THEN << [action |-> "Clear Safari cache",
                      steps |-> <<"Settings > Safari > Clear History and Website Data">>,
                      savings_gb |-> cache_savings] >>
             ELSE <<>>)
            \o MapSeq(ReviewRecommendation, reviewed)
            \o (IF unused_apps # <<>>
                THEN << [action |-> "Remove unused apps",
                         steps |-> <<"Settings > General > iPhone Storage",
                                     "Review 'Unused Apps' section",
                                     "Tap on apps and select 'Delete App'">>,
                         savings_gb |-> unused_storage] >>
                ELSE <<>>)
            \o (IF photos_data.size_gb > 100
                THEN << [action |-> "Optimize photo storage",
                         steps |-> <<"Settings > Photos",
                                     "Select 'Optimize iPhone Storage'",
                                     "Review 'Recently Deleted' album">>,
                         savings_gb |-> RoundNearest(photos_data.size_gb * 2, 10, tie_up)] >>
                ELSE <<>>)
        potential_savings ==
            (IF cache_found THEN cache_data.size_gb ELSE 0)
            + SumSeq(MapSeq(AppSavings, reviewed))
            + (IF unused_apps # <<>> THEN unused_storage ELSE 0)
        cleanup_plan ==
            [quick_clean |->
                IF cache_data.size_gb > 10
                THEN << [task |-> "Clear browser caches", time |-> "2 minutes",
                         savings |-> cache_savings] >>
                ELSE <<>>,
             deep_clean |->
                IF unused_apps # <<>>
                THEN << [task |-> "Remove " \o ToString(Len(Take(unused_apps, 3)))
                                  \o " unused apps",
                         time |-> "10 minutes",
                         savings |-> SumSeq(MapSeq(TotalSize, Take(unused_apps, 3)))] >>
                ELSE <<>>]
    IN  [device_id |-> self.device_id,
         timestamp |-> Now,
         storage_summary |-> storage,
         app_analysis |-> Take(apps, 10),
         issues |-> issues,
         recommendations |-> recommendations,
         cleanup_plan |-> cleanup_plan,
         potential_savings_gb |-> potential_savings,
         next_steps |-> <<"Review app storage in Settings > General > iPhone Storage",
                          "Enable iCloud Photo Library optimization",
                          "Set up automatic app offloading">>]

identify_storage_issues(self, d, a) ==
    StorageAnalysis(self, simulate_storage_usage(self, d), analyze_app_storage(a), d.tie_up)

\* generate_cleanup_report(format): what the call gives back.
generate_cleanup_report(self, format, d, a) ==
    LET analysis == identify_storage_issues(self, d, a)
    IN  IF format = "json"
        THEN [raised |-> FALSE, rendering |-> "json", analysis |-> analysis]
        ELSE [raised |-> FALSE, rendering |-> "text",
              device |-> analysis.device_id,
              storage_summary |-> [total |-> analysis.storage_summary.total,
                                   used |-> analysis.storage_summary.used,
                                   available |-> analysis.storage_summary.available,
                                   percentage_used |->
                                       analysis.storage_summary.percentage_used],
              top_consumers |->
                  MapSeq(LAMBDA app : <<app.name, app.total_size, app.cache_size,
                                        app.cleanable_cache>>,
                         Take(analysis.app_analysis, 5)),
              issues |-> MapSeq(LAMBDA issue : <<issue.severity, issue.message>>,
                                analysis.issues),
              recommendations |->
                  MapSeq(LAMBDA rec : <<rec.action, rec.savings_gb>>,
                         Take(analysis.recommendations, 3)),
              potential_savings_gb |-> analysis.potential_savings_gb,
              quick_clean |-> analysis.cleanup_plan.quick_clean,
              deep_clean |-> analysis.cleanup_plan.deep_clean]

(***************************************************************************)
(* app.py: run_script and log_execution                                    *)
(***************************************************************************)

Missing == "<missing>"

ValidScripts == <<"network_validator", "mdm_checker", "storage_cleaner">>

ScriptNames == {"network_validator", "mdm_checker", "storage_cleaner", "unknown_x"}

\* Request bodies: one that is not JSON; JSON that is falsy (null, [], 0, {});
\* JSON that is truthy and no object (a non-empty array); and objects without a
\* device_id key or with one that is a string, the empty string or null.
Bodies ==
    { [kind |-> "malformed", device_id |-> Missing],
      [kind |-> "falsy", device_id |-> Missing],
      [kind |-> "array", device_id |-> Missing] }
    \cup [kind : {"object"}, device_id : {Missing, "dev-1", "", None}]

\* datetime.now().timestamp() of the default device id.
UserStamps == {"1700000000.0"}

\* The generator draws a request is followed with.
RequestProfileDraws ==
    {p \in ProfileDraws : /\ p.mdm_days = 30 /\ p.vpn_days = 365 /\ p.wifi_days = 30
                          /\ p.policy_installed}
RequestAppDraws == {a \in CorporateAppDraws : a.portal = a.authenticator /\ a.mail = a.portal
                                              /\ a.vpn_client = a.portal}
RequestStorageDraws ==
    {d \in BreakdownDraws : /\ d.total_gb \in {64, 512} /\ d.used_high /\ d.tie_up
                            /\ \A c \in {"apps", "photos", "documents", "system", "other"} :
                                    d[c] = RawLow[c]}
RequestAppStorageDraws ==
    {a \in AppStorageDraws : /\ a.edge = {}
                             /\ \A i \in 1..Len(CommonApps) : a.size[i] = "low"}

\* An exception raised inside a generator (print at network_validator.py:130
\* or mdm_checker.py:127 failing on the output stream, MemoryError, ...).
GeneratorErrors == {"<generator error>"}

\* What constructing and invoking the generator of a valid script gives:
\* lines 183-193.
GeneratorOutcomes(script_name, device_id) ==
    {[raised |-> TRUE, error |-> e] : e \in GeneratorErrors}
    \cup
    CASE script_name = "network_validator" ->
            {[raised |-> FALSE,
              result |-> generate_health_report(NewValidator(device_id, sim).results,
                                                w, v, d).report] :
                sim \in SimIds, w \in WifiDraws, v \in VpnStatusDraws, d \in DnsDraws}
      [] script_name = "mdm_checker" ->
            {[raised |-> FALSE,
              result |-> run_compliance_check(NewChecker(device_id, sim), p, s, a, TRUE)] :
                sim \in SimIds, p \in RequestProfileDraws, s \in SecurityDraws,
                a \in RequestAppDraws}
      [] script_name = "storage_cleaner" ->
            {[raised |-> FALSE,
              result |-> identify_storage_issues(NewAnalyzer(device_id, sim), d, a)] :
                sim \in SimIds, d \in RequestStorageDraws, a \in RequestAppStorageDraws}

\* log_execution: the line it prints.
log_execution(script_name, device_id, status) ==
    [timestamp |-> Now, script |-> script_name, device_id |-> device_id,
     status |-> status, ip_address |-> "<remote_addr>"]

\* Lines 180-181: request.get_json() or {}, then data.get('device_id', default).
\* get_json raises on a body that is not JSON; .get is no attribute of a list.
AssignDeviceId(body, stamp) ==
    CASE body.kind = "malformed" -> [raised |-> TRUE, error |-> "400 Bad Request"]
      [] body.kind = "array" ->
            [raised |-> TRUE, error |-> "'list' object has no attribute 'get'"]
      [] body.kind = "falsy" -> [raised |-> FALSE, device_id |-> "user-" \o stamp]
      [] body.kind = "object" ->
            [raised |-> FALSE,
             device_id |-> IF body.device_id = Missing THEN "user-" \o stamp
                           ELSE body.device_id]

\* Lines 212-217 entered before device_id was assigned: log_execution's
\* argument raises UnboundLocalError, which leaves run_script.
FailureBeforeDeviceId(steps) ==
    [response |-> [kind |-> "exception", error |-> "UnboundLocalError"],
     trace |-> steps \o <<"raise", "except">>,
     logged |-> <<>>]

\* Lines 195-199.
NotFound(steps) ==
    [response |-> [kind |-> "not_found", status |-> 404,
                   body |-> [error |-> "Script not found",
                             available_scripts |-> ValidScripts]],
     trace |-> steps \o <<"return">>,
     logged |-> <<>>]

FailureReraised(steps, script_name, device_id, error) ==
    [response |-> [kind |-> "exception", error |-> error],
     trace |-> steps \o <<"construct", "invoke", "raise", "except", "log_execution">>,
     logged |-> <<log_execution(script_name, device_id, "error: " \o error)>>]

\* Lines 212-217 with device_id assigned.
Failure(steps, script_name, device_id, error) ==
    [response |-> [kind |-> "error", status |-> 500,
                   body |-> [success |-> FALSE, error |-> error]],
     trace |-> steps \o <<"construct", "invoke", "raise", "except", "log_execution",
                          "return">>,
     logged |-> <<log_execution(script_name, device_id, "error: " \o error)>>]

SuccessUnlogged(steps, script_name, device_id, result) ==
    [response |-> [kind |-> "success", status |-> 200,
                   body |-> [success |-> TRUE, script |-> script_name,
                             device_id |-> device_id, timestamp |-> Now,
                             result |-> result]],
     trace |-> steps \o <<"construct", "invoke", "return">>,
     logged |-> <<>>]

\* Lines 201-210.
Success(steps, script_name, device_id, result) ==
    [response |-> [kind |-> "success", status |-> 200,
                   body |-> [success |-> TRUE, script |-> script_name,
                             device_id |-> device_id, timestamp |-> Now,
                             result |-> result]],
     trace |-> steps \o <<"construct", "invoke", "log_execution", "return">>,
     logged |-> <<log_execution(script_name, device_id, "success")>>]

IsValidScript(script_name) ==
    \E i \in 1..Len(ValidScripts) : ValidScripts[i] = script_name

\* run_script: every way one request can end.
run_script(script_name, body, stamp) ==
    LET got == AssignDeviceId(body, stamp)
        steps == <<"get_json">>
    IN  IF got.raised THEN {FailureBeforeDeviceId(steps)}
        ELSE IF ~IsValidScript(script_name) THEN {NotFound(steps)}
        ELSE {IF out.raised
              THEN Failure(steps, script_name, got.device_id, out.error)
              ELSE Success(steps, script_name, got.device_id, out.result) :
                 out \in GeneratorOutcomes(script_name, got.device_id)}

(***************************************************************************)
(* The state machine                                                       *)
(***************************************************************************)

NoRequest == [script_name |-> "", body |-> [kind |-> "none"]]
NoResponse == [kind |-> "none"]
NoExport == [raised |-> FALSE, rendering |-> "none"]
NoReturn == [op |-> "none"]

Init ==
    /\ request = NoRequest
    /\ response = NoResponse
    /\ trace = <<>>
    /\ logged = <<>>
    /\ validator = NewValidator(None, "1000")
    /\ reports = <<>>
    /\ calls = 0
    /\ exported = NoExport
    /\ checker = NewChecker(None, "1000")
    /\ compliance = NoReturn
    /\ analyzer = NewAnalyzer(None, "1000")
    /\ storageRet = NoReturn

\* POST /api/run-script/<script_name>, by a worker that is answering nothing.
RunScript ==
    /\ response = NoResponse
    /\ \E script_name \in ScriptNames, body \in Bodies, stamp \in UserStamps :
        \E end \in run_script(script_name, body, stamp) :
            /\ request' = [script_name |-> script_name, body |-> body]
            /\ response' = end.response
            /\ trace' = end.trace
            /\ logged' = end.logged
            /\ UNCHANGED <<networkVars, mdmVars, storageVars>>

\* The response has gone out; the worker takes the next request.
SendResponse ==
    /\ response # NoResponse
    /\ request' = NoRequest
    /\ response' = NoResponse
    /\ trace' = <<>>
    /\ logged' = <<>>
    /\ UNCHANGED <<networkVars, mdmVars, storageVars>>

Next == RunScript \/ SendResponse

Spec == Init /\ [][Next]_vars

\* validator = NetworkValidator(dev): a new instance replaces the one followed.
Construct ==
    \E dev \in DeviceArgs, sim \in SimIds :
        /\ validator' = NewValidator(dev, sim)
        /\ reports' = <<>>
        /\ calls' = 0
        /\ exported' = NoExport
        /\ UNCHANGED <<dispatchVars, mdmVars, storageVars>>

\* report = validator.generate_health_report(); the caller keeps the report.
GenerateHealthReport ==
    /\ calls < MaxCalls
    /\ \E w \in WifiDraws, v \in VpnStatusDraws, d \in DnsDraws :
        LET gen == generate_health_report(validator.results, w, v, d)
        IN  /\ validator' = [validator EXCEPT !.results = gen.results]
            /\ reports' = [i \in 1..Len(reports) |-> Aliased(reports[i], gen.results)]
                          \o <<gen.report>>
            /\ calls' = calls + 1
            /\ UNCHANGED <<exported, dispatchVars, mdmVars, storageVars>>

\* text = validator.export_report(format)
ExportReport ==
    /\ calls < MaxExports
    /\ \E format \in Formats, w \in WifiDraws, v \in VpnStatusDraws, d \in DnsDraws :
        LET exp == export_report(validator.results, format, w, v, d)
        IN  /\ validator' = [validator EXCEPT !.results = exp.results]
            /\ reports' = [i \in 1..Len(reports) |-> Aliased(reports[i], exp.results)]
            /\ calls' = calls + 1
            /\ exported' = exp.ret
            /\ UNCHANGED <<dispatchVars, mdmVars, storageVars>>

NextNetwork == Construct \/ GenerateHealthReport

SpecNetwork == Init /\ [][NextNetwork]_vars

NextExport == Construct \/ ExportReport

SpecExport == Init /\ [][NextExport]_vars

\* checker = MDMComplianceChecker(dev)
ConstructChecker ==
    \E dev \in DeviceArgs, sim \in SimIds :
        /\ checker' = NewChecker(dev, sim)
        /\ compliance' = NoReturn
        /\ UNCHANGED <<dispatchVars, networkVars, storageVars>>

\* report = checker.run_compliance_check(), the one call followed on an
\* instance: it keeps no state, so every call on it starts as this one does.
RunComplianceCheck ==
    /\ compliance = NoReturn
    /\ \E p \in ProfileDraws, s \in SecurityDraws, a \in CorporateAppDraws, late \in ClockDraws :
        /\ compliance' = [op |-> "run_compliance_check", late |-> late,
                          draws |-> [p |-> p, s |-> s, a |-> a],
                          ret |-> run_compliance_check(checker, p, s, a, late)]
        /\ UNCHANGED <<checker, dispatchVars, networkVars, storageVars>>

\* certificate = checker.generate_compliance_certificate()
GenerateComplianceCertificate ==
    /\ compliance = NoReturn
    /\ \E p \in ProfileDraws, s \in SecurityDraws, a \in CorporateAppDraws,
          late \in ClockDraws, id \in CertificateIds, tick \in CertificateTicks :
        LET call == generate_compliance_certificate(checker, p, s, a, late, id, tick)
        IN  /\ compliance' = [op |-> "generate_compliance_certificate", late |-> late,
                              draws |-> [p |-> p, s |-> s, a |-> a],
                              checks |-> call.checks,
                              ret |-> call.certificate]
            /\ UNCHANGED <<checker, dispatchVars, networkVars, storageVars>>

NextMDM == ConstructChecker \/ RunComplianceCheck \/ GenerateComplianceCertificate

SpecMDM == Init /\ [][NextMDM]_vars

\* analyzer = StorageAnalyzer(dev)
ConstructAnalyzer ==
    \E dev \in DeviceArgs, sim \in SimIds :
        /\ analyzer' = NewAnalyzer(dev, sim)
        /\ storageRet' = NoReturn
        /\ UNCHANGED <<dispatchVars, networkVars, mdmVars>>

\* storage = analyzer.simulate_storage_usage(), the one call followed on an
\* instance (it keeps no state).
SimulateStorageUsage ==
    /\ storageRet = NoReturn
    /\ \E d \in BreakdownDraws :
        /\ storageRet' = [op |-> "simulate_storage_usage", raw |-> d,
                          ret |-> simulate_storage_usage(analyzer, d)]
        /\ UNCHANGED <<analyzer, dispatchVars, networkVars, mdmVars>>

NextBreakdown == ConstructAnalyzer \/ SimulateStorageUsage

SpecBreakdown == Init /\ [][NextBreakdown]_vars

\* The storage draws the analysis is followed with: a device half full with
\* little cache, the same with more cache, and a large device nearly full.
AnalysisStorageDraws ==
    { [total_gb |-> 64, used_high |-> FALSE, apps |-> 60, photos |-> 40,
       documents |-> 20, system |-> 20, cache |-> 5, other |-> 10, tie_up |-> TRUE],
      [total_gb |-> 64, used_high |-> FALSE, apps |-> 30, photos |-> 10,
       documents |-> 5, system |-> 10, cache |-> 15, other |-> 1, tie_up |-> FALSE],
      [total_gb |-> 512, used_high |-> TRUE, apps |-> 30, photos |-> 40,
       documents |-> 5, system |-> 10, cache |-> 5, other |-> 1, tie_up |-> TRUE] }

\* apps = analyzer.analyze_app_storage()
AnalyzeAppStorage ==
    /\ storageRet = NoReturn
    /\ \E a \in AppStorageDraws :
        /\ storageRet' = [op |-> "analyze_app_storage",
                          ret |-> analyze_app_storage(a)]
        /\ UNCHANGED <<analyzer, dispatchVars, networkVars, mdmVars>>

\* analysis = analyzer.identify_storage_issues()
IdentifyStorageIssues ==
    /\ storageRet = NoReturn
    /\ \E d \in AnalysisStorageDraws, a \in AppStorageDraws :
        /\ storageRet' = [op |-> "identify_storage_issues",
                          ret |-> identify_storage_issues(analyzer, d, a)]
        /\ UNCHANGED <<analyzer, dispatchVars, networkVars, mdmVars>>

\* text = analyzer.generate_cleanup_report(format)
GenerateCleanupReport ==
    /\ storageRet = NoReturn
    /\ \E format \in Formats, d \in RequestStorageDraws, a \in RequestAppStorageDraws :
        /\ storageRet' = [op |-> "generate_cleanup_report", format |-> format,
                          ret |-> generate_cleanup_report(analyzer, format, d, a)]
        /\ UNCHANGED <<analyzer, dispatchVars, networkVars, mdmVars>>

NextStorage ==
    ConstructAnalyzer \/ AnalyzeAppStorage \/ IdentifyStorageIssues \/ GenerateCleanupReport

SpecStorage == Init /\ [][NextStorage]_vars

(***************************************************************************)
(* The claims                                                              *)
(***************************************************************************)

Occurs(step) == \E i \in 1..Len(trace) : trace[i] = step

Count(step) == Cardinality({i \in 1..Len(trace) : trace[i] = step})

\* The generator of the request was invoked and raised.
GeneratorRaised ==
    \E i \in 1..Len(trace) - 1 : trace[i] = "invoke" /\ trace[i + 1] = "raise"

\* C1: when the generator of a valid script raises, run_script returns the
\* success:false response with the error message and status 500, one execution
\* record with the error detail is logged, and no exception leaves run_script.
C1_GeneratorFailureCaught ==
    GeneratorRaised =>
        /\ IsValidScript(request.script_name)
        /\ response.kind = "error"
        /\ response.status = 500
        /\ response.body.success = FALSE
        /\ response.body.error \in GeneratorErrors
        /\ Len(logged) = 1
        /\ logged[1].script = request.script_name
        /\ logged[1].status = "error: " \o response.body.error
        /\ trace[Len(trace)] = "return"

C1_Witness ==
    /\ GeneratorRaised
    /\ request.script_name = "mdm_checker"
    /\ response.kind = "error"
    /\ Len(logged) = 1

\* C2: a request for a script name that is none of the three gets the
\* not-found result listing exactly the three names, and no generator is
\* constructed or invoked for it.
C2_UnknownScriptNotFound ==
    (response # NoResponse /\ ~IsValidScript(request.script_name)) =>
        /\ response.kind = "not_found"
        /\ response.body.available_scripts =
               <<"network_validator", "mdm_checker", "storage_cleaner">>
        /\ ~Occurs("construct")
        /\ ~Occurs("invoke")

\* C3: when the generator of a valid script completes, the request's steps are
\* the generator invoked, then one execution record logged with status
\* success, then the envelope {success: true, script, device_id, timestamp,
\* result} returned, the record naming the envelope's script and device id.
C3_SuccessOrder ==
    (Occurs("invoke") /\ ~Occurs("raise")) =>
        /\ response.kind = "success"
        /\ DOMAIN response.body = {"success", "script", "device_id", "timestamp", "result"}
        /\ response.body.success = TRUE
        /\ response.body.script = request.script_name
        /\ Count("invoke") = 1 /\ Count("log_execution") = 1 /\ Count("return") = 1
        /\ \E i, j, k \in 1..Len(trace) :
              /\ i < j /\ j < k
              /\ trace[i] = "invoke" /\ trace[j] = "log_execution" /\ trace[k] = "return"
        /\ Len(logged) = 1
        /\ logged[1].status = "success"
        /\ logged[1].script = response.body.script
        /\ logged[1].device_id = response.body.device_id

C3_Witness ==
    /\ response.kind = "success"
    /\ request.script_name = "mdm_checker"
    /\ request.body.device_id = "dev-1"
    /\ logged = <<log_execution("mdm_checker", "dev-1", "success")>>

\* The issues and recommendations the checks of the call that produced report
\* found: its own Wi-Fi, VPN and DNS results, run on a new instance.
OwnFindings(report) ==
    generate_health_report(
        NewValidator(report.device_id, "1000").results,
        report.wifi,
        report.vpn.vpn_configurations[1].status,
        [internal |-> report.dns.resolution_tests[2].status = "resolved",
         mdm |-> report.dns.resolution_tests[3].status = "resolved"]).report

LastReport == reports[Len(reports)]

\* C4: every report an instance returned holds exactly the issues and
\* recommendations its own call's Wi-Fi, VPN and DNS checks found, whatever
\* calls came after it.
C4_ReportsIndependent ==
    \A i \in 1..Len(reports) :
        /\ reports[i].issues = OwnFindings(reports[i]).issues
        /\ reports[i].recommendations = OwnFindings(reports[i]).recommendations

\* C5: in the report a call returns, health_score = max(0, 100 - 20 * number of
\* issues in it), it lies in 0..100, and summary.status is HEALTHY exactly from
\* 80 up, NEEDS_ATTENTION exactly in 50..79, UNHEALTHY below.
C5_HealthScore ==
    reports # <<>> =>
        LET r == LastReport
            n == Len(r.issues)
            score == r.health_score
        IN  /\ score = Max(0, 100 - 20 * n)
            /\ score \in 0..100
            /\ (r.summary.status = "HEALTHY") <=> (score >= 80)
            /\ (r.summary.status = "NEEDS_ATTENTION") <=> (score >= 50 /\ score < 80)
            /\ (r.summary.status = "UNHEALTHY") <=> (score < 50)

\* A report with more issues than 100 / 20, where the score is cut off at 0.
C5_Witness ==
    /\ reports # <<>>
    /\ Len(LastReport.issues) > 5
    /\ LastReport.health_score = 0
    /\ LastReport.summary.status = "UNHEALTHY"

ComplianceReturned == compliance.op = "run_compliance_check"

\* C6 as amended: compliance_score = max(0, 100 - floor(100 * failed_checks /
\* total_checks)) with total_checks = 11 and failed_checks the number of
\* issues; it lies in 0..100; status is COMPLIANT exactly from 90 up.
C6_ComplianceScoreFloor ==
    ComplianceReturned =>
        LET r == compliance.ret
            failed == Len(r.issues)
        IN  /\ r.summary.total_checks = 4 + 3 + 4
            /\ r.summary.failed_checks = failed
            /\ \E q \in 0..(100 * failed) :
                  /\ q * 11 <= 100 * failed
                  /\ 100 * failed < (q + 1) * 11
                  /\ r.compliance_score = Max(0, 100 - q)
            /\ r.compliance_score \in 0..100
            /\ r.status \in {"COMPLIANT", "NON_COMPLIANT"}
            /\ (r.status = "COMPLIANT") <=> (r.compliance_score >= 90)

\* C6 as claimed: compliance_score = max(0, 100 - 100 * failed_checks /
\* total_checks), the quotient exact (both sides times total_checks = 11).
C6_ComplianceScoreExact ==
    ComplianceReturned =>
        LET r == compliance.ret
            failed == Len(r.issues)
        IN  /\ r.summary.total_checks = 4 + 3 + 4
            /\ r.compliance_score * 11 = Max(0, 100 * 11 - 100 * failed)
            /\ r.compliance_score \in 0..100
            /\ (r.status = "COMPLIANT") <=> (r.compliance_score >= 90)

\* One issue: 100 * 1 / 11 is no integer, and the score is 91.
C6_Witness ==
    /\ ComplianceReturned
    /\ Len(compliance.ret.issues) = 1
    /\ compliance.ret.compliance_score = 91
    /\ compliance.ret.status = "COMPLIANT"

IsJailbreakIssue(i) == i.type = "security" /\ i.issue = "Device is jailbroken"

\* C10: a compliance report whose security.device.jailbroken is true holds
\* exactly one issue about the jailbreak, of severity critical; one whose
\* flag is false holds none.
C10_JailbreakIssue ==
    ComplianceReturned =>
        LET r == compliance.ret
            about == SelectSeq(r.issues, IsJailbreakIssue)
            critical == SelectSeq(about, LAMBDA i : i.severity = "critical")
        IN  /\ Len(about) = Len(critical)
            /\ Len(critical) = IF r.security.device.jailbroken THEN 1 ELSE 0

\* A jailbroken device without a passcode: two critical issues, one of them
\* about the jailbreak.
C10_Witness ==
    /\ ComplianceReturned
    /\ compliance.ret.security.device.jailbroken
    /\ ~compliance.ret.security.passcode.enabled
    /\ compliance.ret.summary.critical_issues = 2

\* C7: a rendering call given a format other than json and text fails with
\* the unsupported-format error, and given json or text returns that
\* rendering (StorageAnalyzer.generate_cleanup_report).
C7_UnsupportedFormatFails ==
    storageRet.op = "generate_cleanup_report" =>
        IF storageRet.format \in {"json", "text"}
        THEN ~storageRet.ret.raised /\ storageRet.ret.rendering = storageRet.format
        ELSE storageRet.ret.raised

Abs(n) == IF n < 0 THEN -n ELSE n

\* The six percentages of the breakdown returned, summed (in tenths).
PercentageSum ==
    SumSeq([i \in 1..Len(storageRet.ret.breakdown) |->
                storageRet.ret.breakdown[i].percentage])

BreakdownReturned == storageRet.op = "simulate_storage_usage"

\* C8 as amended: the six normalized percentages, each rounded to one decimal,
\* sum to 100.0 within a tolerance of 0.3.
C8_PercentagesSumWithin3 ==
    BreakdownReturned =>
        /\ Len(storageRet.ret.breakdown) = 6
        /\ Abs(PercentageSum - 1000) <= 3

\* C8 as claimed: they sum to 100.0 within a tolerance of 0.1.
C8_PercentagesSumWithin1 ==
    BreakdownReturned => Abs(PercentageSum - 1000) <= 1

\* Raw draws whose rounded percentages sum to 99.8 or to 100.2.
C8_Witness ==
    /\ BreakdownReturned
    /\ Abs(PercentageSum - 1000) = 2

SortedDescending(apps) ==
    \A i \in 1..Len(apps) - 1 : apps[i].total_size >= apps[i + 1].total_size

\* C9: the list analyze_app_storage returns and the app_analysis list of the
\* storage report have total_size non-increasing from each entry to the next.
C9_AppsSortedDescending ==
    /\ storageRet.op = "analyze_app_storage" =>
          /\ Len(storageRet.ret) = Len(CommonApps)
          /\ SortedDescending(storageRet.ret)
    /\ storageRet.op = "identify_storage_issues" =>
          /\ Len(storageRet.ret.app_analysis) = 10
          /\ SortedDescending(storageRet.ret.app_analysis)

\* A report whose list starts with an app that common_apps lists late, with
\* sizes that really decrease and two equal ones.
C9_Witness ==
    /\ storageRet.op = "identify_storage_issues"
    /\ storageRet.ret.app_analysis[1].name = "YouTube"
    /\ storageRet.ret.app_analysis[1].total_size > storageRet.ret.app_analysis[2].total_size
    /\ \E i \in 1..9 : storageRet.ret.app_analysis[i].total_size =
                           storageRet.ret.app_analysis[i + 1].total_size

\* C11: in every compliance report, compliance_score is below 100 when the
\* issues list holds an issue, and is 100 when it holds none.
C11_ScoreBelow100WithIssues ==
    ComplianceReturned =>
        /\ compliance.ret.issues # <<>> => compliance.ret.compliance_score < 100
        /\ compliance.ret.issues = <<>> => compliance.ret.compliance_score = 100

\* One issue of medium severity, the smallest deduction there is.
C11_Witness ==
    /\ ComplianceReturned
    /\ Len(compliance.ret.issues) = 1
    /\ compliance.ret.issues[1].severity = "medium"
    /\ compliance.ret.compliance_score \in 1..99

StorageReported == storageRet.op = "identify_storage_issues"

\* The savings the recommendations of a storage report state, the
\* photo-optimization recommendation left out.
StatedSavings(report) ==
    SumSeq([i \in 1..Len(report.recommendations) |->
               IF report.recommendations[i].action = "Optimize photo storage"
               THEN 0 ELSE report.recommendations[i].savings_gb])

\* C12: potential_savings_gb of a storage report is the sum of the savings its
\* cache, large-app and unused-app recommendations state; the savings of the
\* photo-optimization recommendation are not in it.
C12_SavingsAreStatedSavings ==
    StorageReported =>
        storageRet.ret.potential_savings_gb = StatedSavings(storageRet.ret)

\* C13: the network health report a call returns has the quick_fixes field,
\* holding the three fixed strings, when it counts an issue (failed_checks > 0,
\* the issues list is not empty), and has no such field when it counts none.
C13_QuickFixesWithIssues ==
    reports # <<>> =>
        LET r == LastReport
        IN  /\ r.summary.failed_checks = Len(r.issues)
            /\ ("quick_fixes" \in DOMAIN r) <=> (r.summary.failed_checks > 0)
            /\ "quick_fixes" \in DOMAIN r =>
                  r.quick_fixes = <<"Restart Wi-Fi: Turn off/on Wi-Fi in Settings",
                                    "Forget and rejoin corporate network",
                                    "Restart device if issues persist">>

\* The first report of an instance, with one issue and the field.
C13_Witness ==
    /\ Len(reports) = 1
    /\ Len(LastReport.issues) = 1
    /\ "quick_fixes" \in DOMAIN LastReport
    /\ Len(LastReport.quick_fixes) = 3

\* C14: an export_report call that fails on its format leaves the validator as
\* it was: results.issues, results.recommendations and results.health_score
\* are the same after the call as before it.
C14_FailedExportLeavesState ==
    [][(ExportReport /\ exported'.raised) =>
          /\ validator'.results.issues = validator.results.issues
          /\ validator'.results.recommendations = validator.results.recommendations
          /\ validator'.results.health_score = validator.results.health_score]_vars

\* C15: in the Wi-Fi check, not connected appends one high-severity Wi-Fi
\* issue, and signal_strength < -70 appends one medium-severity Wi-Fi issue,
\* each whatever the other condition is.
C15_WifiIssuesIndependent ==
    (Len(reports) = 1) =>
        LET w == LastReport.wifi
            wifi(severity) ==
                Len(SelectSeq(LastReport.issues,
                              LAMBDA i : i.category = "Wi-Fi" /\ i.severity = severity))
        IN  /\ wifi("high") = IF ~w.connected THEN 1 ELSE 0
            /\ wifi("medium") = IF w.signal_strength < -70 THEN 1 ELSE 0

\* C15 as amended: a connected device with signal_strength < -70 gets the one
\* medium issue, a device that is not connected gets the one high issue and no
\* medium one, whatever its signal.
C15_WifiIssueExclusive ==
    (Len(reports) = 1) =>
        LET w == LastReport.wifi
            wifi(severity) ==
                Len(SelectSeq(LastReport.issues,
                              LAMBDA i : i.category = "Wi-Fi" /\ i.severity = severity))
        IN  /\ wifi("high") = IF ~w.connected THEN 1 ELSE 0
            /\ wifi("medium") = IF w.connected /\ w.signal_strength < -70 THEN 1 ELSE 0
            /\ wifi("high") + wifi("medium") <= 1

\* Not connected and a weak signal in one draw: one Wi-Fi issue, the high one.
C15_Witness ==
    /\ Len(reports) = 1
    /\ ~LastReport.wifi.connected
    /\ LastReport.wifi.signal_strength < -70
    /\ Len(SelectSeq(LastReport.issues, LAMBDA i : i.category = "Wi-Fi")) = 1

\* The issues of the compliance report of the given type about the profile.
IssuesAbout(type, name) ==
    SelectSeq(compliance.ret.issues, LAMBDA i : i.type = type /\ i.profile = name)

\* The days a profile of the report had left when the check looked at it.
DaysLeft(profile) == profile.expiry - (IF compliance.late THEN 1 ELSE 0)

\* C16: each required profile that is not installed has exactly one
\* missing_profile issue, of severity high; each installed profile with less
\* than 30 days left has exactly one expiring_profile issue, high up to 7 days
\* and medium above; other profiles have neither, and none has both.
C16_ProfileIssues ==
    ComplianceReturned =>
        \A k \in 1..Len(compliance.ret.profiles) :
            LET profile == compliance.ret.profiles[k]
                required == profile.name \in {"Corporate_MDM", "VPN_Configuration",
                                              "Wi-Fi_Certificate", "Email_Profile"}
                missing == IssuesAbout("missing_profile", profile.name)
                expiring == IssuesAbout("expiring_profile", profile.name)
            IN  /\ Len(missing) = IF required /\ ~profile.installed THEN 1 ELSE 0
                /\ \A i \in 1..Len(missing) : missing[i].severity = "high"
                /\ Len(expiring) =
                      IF profile.installed /\ DaysLeft(profile) < 30 THEN 1 ELSE 0
                /\ \A i \in 1..Len(expiring) :
                      /\ expiring[i].days_remaining = DaysLeft(profile)
                      /\ expiring[i].severity =
                            IF DaysLeft(profile) <= 7 THEN "high" ELSE "medium"
                /\ Len(missing) + Len(expiring) <= 1

\* Corporate_MDM installed with exactly 7 days left (high), VPN_Configuration
\* installed with 29 (medium), Wi-Fi_Certificate not installed (missing).
C16_Witness ==
    /\ ComplianceReturned
    /\ \E i \in 1..Len(compliance.ret.issues) :
          /\ compliance.ret.issues[i].type = "expiring_profile"
          /\ compliance.ret.issues[i].profile = "Corporate_MDM"
          /\ compliance.ret.issues[i].days_remaining = 7
          /\ compliance.ret.issues[i].severity = "high"
    /\ Len(IssuesAbout("expiring_profile", "VPN_Configuration")) = 1
    /\ Len(IssuesAbout("missing_profile", "Wi-Fi_Certificate")) = 1

\* The report the same run gives with every app installed: two runs that
\* differ only in their apps have this one report in common.
WithAllApps ==
    run_compliance_check(checker, compliance.draws.p, compliance.draws.s,
                         [portal |-> TRUE, authenticator |-> TRUE, mail |-> TRUE,
                          vpn_client |-> TRUE],
                         compliance.late)

\* What a report says of the device's compliance.
Verdict(report) ==
    <<report.issues, report.summary.failed_checks, report.compliance_score, report.status>>

\* C17: each required app that is not installed has one recommendation of
\* priority medium and no issue; failed_checks, compliance_score and status
\* are those of every run that differs only in the apps installed.
C17_MissingAppsOnlyRecommended ==
    ComplianceReturned =>
        LET r == compliance.ret
        IN  /\ \A k \in 1..Len(r.apps) :
                  LET about == SelectSeq(r.recommendations,
                                         LAMBDA rec : rec.app = r.apps[k].name)
                      required == r.apps[k].name \in {"Company_Portal", "Authenticator",
                                                     "Secure_Mail", "VPN_Client"}
                  IN  /\ Len(about) = IF required /\ ~r.apps[k].installed THEN 1 ELSE 0
                      /\ \A i \in 1..Len(about) :
                            about[i].type = "app" /\ about[i].priority = "medium"
            /\ \A i \in 1..Len(r.issues) :
                  r.issues[i].type \in {"missing_profile", "expiring_profile", "security"}
            /\ Verdict(r) = Verdict(WithAllApps)

\* No required app installed and nothing else wrong: four recommendations,
\* no issue, score 100.
C17_Witness ==
    /\ ComplianceReturned
    /\ Len(compliance.ret.recommendations) = 4
    /\ compliance.ret.issues = <<>>
    /\ compliance.ret.compliance_score = 100
    /\ compliance.ret.status = "COMPLIANT"

CertificateReturned == compliance.op = "generate_compliance_certificate"

\* C18: a generate_compliance_certificate call runs one compliance check, on
\* draws of its own, and its certificate carries that run's status and score,
\* is valid until 30 days after its issue, and has security_compliant true
\* exactly when that run's score is at least 80; a certificate is returned for
\* a COMPLIANT and for a NON_COMPLIANT run.
C18_CertificateOfOneRun ==
    CertificateReturned =>
        LET certificate == compliance.ret
            run == compliance.checks[1]
        IN  /\ Len(compliance.checks) = 1
            /\ run = run_compliance_check(checker, compliance.draws.p, compliance.draws.s,
                                          compliance.draws.a, compliance.late)
            /\ certificate.compliance_status = run.status
            /\ certificate.compliance_status \in {"COMPLIANT", "NON_COMPLIANT"}
            /\ certificate.score = run.compliance_score
            /\ certificate.device_id = checker.device_id
            /\ certificate.valid_until[1] - certificate.issue_date[1] = 30
            /\ certificate.valid_until[2] >= certificate.issue_date[2]
            /\ certificate.details.security_compliant <=> (run.compliance_score >= 80)

\* Two issues: the run is NON_COMPLIANT with score 82, and the certificate is
\* returned, with security_compliant true.
C18_Witness ==
    /\ CertificateReturned
    /\ compliance.ret.compliance_status = "NON_COMPLIANT"
    /\ compliance.ret.score = 82
    /\ Len(compliance.checks[1].issues) = 2
    /\ compliance.ret.details.security_compliant

\* The apps of a storage report over 2 GB whose type is neither system nor
\* corporate, largest first.
LargeUnmanagedApps(report) ==
    SelectSeq(report.app_analysis,
              LAMBDA app : app.total_size > 20 /\ app.type \notin {"system", "corporate"})

\* The per-app recommendations of a storage report: <<app name, savings>>.
ReviewsOf(report) ==
    LET reviews == SelectSeq(report.recommendations,
                             LAMBDA rec : \E k \in 1..Len(report.app_analysis) :
                                 rec.action = "Review " \o report.app_analysis[k].name
                                              \o " storage")
    IN  [i \in 1..Len(reviews) |-> <<reviews[i].action, reviews[i].savings_gb>>]

\* C19: the storage report holds the medium large_apps issue exactly when an
\* app that is neither system nor corporate is over 2 GB, and holds a Review
\* recommendation, with savings cache_size + documents_size, for the three
\* largest such apps.
C19_LargeAppsExcludeManaged ==
    StorageReported =>
        LET r == storageRet.ret
            large == LargeUnmanagedApps(r)
            top == SubSeq(large, 1, IF Len(large) < 3 THEN Len(large) ELSE 3)
            found == SelectSeq(r.issues, LAMBDA i : i.type = "large_apps")
        IN  /\ Len(found) = IF large # <<>> THEN 1 ELSE 0
            /\ \A i \in 1..Len(found) : found[i].severity = "medium"
            /\ ReviewsOf(r) =
                  [i \in 1..Len(top) |->
                      <<"Review " \o top[i].name \o " storage",
                        top[i].cache_size + top[i].documents_size>>]

\* C20: in every success envelope the device_id of the envelope is the
\* device_id of the report it carries as result, whatever device_id the
\* request body gave: a string, none, null, or the empty string.
C20_EnvelopeDeviceIdIsReports ==
    response.kind = "success" =>
        response.body.device_id = response.body.result.device_id

\* C21: every request gets a JSON response from run_script, the success
\* envelope, the not-found result or the success:false response: whatever
\* raises inside it, before device_id is assigned too, ends in the
\* success:false response, and nothing is raised out of the handler.
C21_AlwaysJsonResponse ==
    response # NoResponse =>
        /\ response.kind \in {"success", "not_found", "error"}
        /\ Occurs("raise") => (response.kind = "error" /\ response.body.success = FALSE)
        /\ trace[Len(trace)] = "return"

\* C22: a compliance report whose issues list holds a critical issue (the
\* device is jailbroken, or its passcode is not enabled) does not have the
\* status COMPLIANT.
C22_CriticalNeverCompliant ==
    ComplianceReturned =>
        ((\E i \in 1..Len(compliance.ret.issues) :
              compliance.ret.issues[i].severity = "critical")
         => compliance.ret.status # "COMPLIANT")

\* The issues of a report in one category.
InCategory(report, category) ==
    SelectSeq(report.issues, LAMBDA i : i.category = category)

\* C23: the report of the first generate_health_report call on a new
\* NetworkValidator holds at most 3 issues, at most one each from Wi-Fi, VPN
\* and DNS; its health_score is one of 100, 80, 60, 40, and
\* summary.passed_checks = 3 - failed_checks is not negative.
C23_FirstReportAtMost3Issues ==
    (Len(reports) = 1 /\ calls = 1) =>
        LET r == LastReport
        IN  /\ Len(r.issues) <= 3
            /\ Len(InCategory(r, "Wi-Fi")) <= 1
            /\ Len(InCategory(r, "VPN")) <= 1
            /\ Len(InCategory(r, "DNS")) <= 1
            /\ Len(r.issues) = Len(InCategory(r, "Wi-Fi")) + Len(InCategory(r, "VPN"))
                               + Len(InCategory(r, "DNS"))
            /\ r.health_score \in {100, 80, 60, 40}
            /\ r.summary.failed_checks = Len(r.issues)
            /\ r.summary.passed_checks = 3 - r.summary.failed_checks
            /\ r.summary.passed_checks >= 0

\* Every check of the first call fails, both internal domains unresolved:
\* three issues, score 40, no check passed.
C23_Witness ==
    /\ Len(reports) = 1 /\ calls = 1
    /\ Len(LastReport.issues) = 3
    /\ LastReport.dns.resolution_tests[3].status = "failed"
    /\ LastReport.health_score = 40
    /\ LastReport.summary.passed_checks = 0

====
